---- MODULE Spec2Model ----
(***************************************************************************)
(* Model of dove's typed-decoding layer, src/convert.rs: the TryFromValue  *)
(* implementations that narrow a decoded AMQP 1.0 Value into u8, u16, u32, *)
(* u64, bool, String, Symbol, the two BTreeMap targets, ErrorCondition,    *)
(* and the generic Option<T> and Vec<T> compositions.                      *)
(*                                                                         *)
(* Representation.                                                         *)
(*   Value          a record with a field tag naming the variant; v is the *)
(*                  payload (absent for Null); Described(d, v) carries the *)
(*                  descriptor d and the payload v.                        *)
(*   Symbol bytes   a sequence of bytes (0..255).                          *)
(*   String         a sequence of Unicode scalar values.                   *)
(*   Map            BTreeMap<Value, Value>: the sequence of its (key,      *)
(*                  value) entries in iteration order, keys pairwise       *)
(*                  distinct.  The order is Value's Ord, which lives in    *)
(*                  crate::types; every order of the keys is admitted.     *)
(*   Result<T>      kind "Ok" with val, or kind "Err" with an AmqpError    *)
(*                  (condition, description); kind "Panic" is the abort of *)
(*                  the conversion by a failed Result::unwrap.             *)
(*   target type    the sequence of its constructors, outermost first:     *)
(*                  Vec<Option<u8>> is <<"Vec", "Option", "u8">>.          *)
(***************************************************************************)
EXTENDS Integers, Sequences, FiniteSets

VARIABLES value, target, result, pc

vars == <<value, target, result, pc>>

(***************************************************************************)
(* Bounds of the checked instance.                                         *)
(***************************************************************************)
MaxVal == 1
MaxSymLen == 2
MaxLen == 2
MaxMapLen == 2
MaxArgs == 2
MaxTypeDepth == 2

(***************************************************************************)
(* Values.                                                                 *)
(***************************************************************************)
Null == [tag |-> "Null"]
Bool(b) == [tag |-> "Bool", v |-> b]
Ubyte(n) == [tag |-> "Ubyte", v |-> n]
Ushort(n) == [tag |-> "Ushort", v |-> n]
Uint(n) == [tag |-> "Uint", v |-> n]
Ulong(n) == [tag |-> "Ulong", v |-> n]
String(s) == [tag |-> "String", v |-> s]
Symbol(b) == [tag |-> "Symbol", v |-> b]
Array(s) == [tag |-> "Array", v |-> s]
List(s) == [tag |-> "List", v |-> s]
Map(m) == [tag |-> "Map", v |-> m]
Described(d, p) == [tag |-> "Described", d |-> d, v |-> p]

(***************************************************************************)
(* Errors and results.                                                     *)
(***************************************************************************)
DECODE_ERROR == "amqp:decode-error"

amqp_error(condition, description) ==
    [kind |-> "Err", condition |-> condition, description |-> description]

decode_error(description) == amqp_error(DECODE_ERROR, description)

\* A literal message, and a message built by format!("... {:?}", arg).
Msg(text) == [text |-> text]
Fmt(text, arg) == [text |-> text, arg |-> arg]

Ok(x) == [kind |-> "Ok", val |-> x]
Panic == [kind |-> "Panic"]

is_ok(r) == r.kind = "Ok"
is_err(r) == r.kind = "Err"

None == [some |-> FALSE]
Some(x) == [some |-> TRUE, v |-> x]

RECURSIVE TryFrom(_, _)

(***************************************************************************)
(* impl<T> TryFromValue for Option<T>                                      *)
(***************************************************************************)
\* Variant: T::try_from(value).ok(), an inner failure read as absence.
OptionTryFromLenient(T, val) ==
    IF val.tag = "Null"
    THEN Ok(None)
    ELSE LET r == TryFrom(T, val)
         IN  IF is_ok(r) THEN Ok(Some(r.val))
             ELSE IF is_err(r) THEN Ok(None) ELSE r

OptionTryFrom(T, val) ==
    IF val.tag = "Null"
    THEN Ok(None)
    ELSE LET r == TryFrom(T, val)
         IN  IF is_ok(r) THEN Ok(Some(r.val)) ELSE r

(***************************************************************************)
(* impl<T> TryFromValue for Vec<T>                                         *)
(***************************************************************************)
\* v.into_iter().map(|f| T::try_from(f))
MapTryFrom(T, v) == [i \in 1..Len(v) |-> TryFrom(T, v[i])]

\* Variant: .partition(Result::is_err), the two halves exchanged.
PartitionSwapped(mapped) ==
    LET not_err(r) == ~is_err(r)
    IN  <<SelectSeq(mapped, is_err), SelectSeq(mapped, not_err)>>

\* .partition(Result::is_ok): <<results, errors>>
Partition(mapped) ==
    LET not_ok(r) == ~is_ok(r)
    IN  <<SelectSeq(mapped, is_ok), SelectSeq(mapped, not_ok)>>

\* Result::unwrap, lifted to the collected sequence: it aborts on an Err.
UnwrapAll(results) ==
    IF \E i \in 1..Len(results) : ~is_ok(results[i])
    THEN Panic
    ELSE Ok([i \in 1..Len(results) |-> results[i].val])

\* Variant: the failing elements are dropped (filter_map(Result::ok)).
ElementsTryFromDropping(T, v, description) ==
    LET mapped == MapTryFrom(T, v)
    IN  IF \E i \in 1..Len(mapped) : mapped[i].kind = "Panic"
        THEN Panic
        ELSE UnwrapAll(SelectSeq(mapped, is_ok))

\* The List arm and the Array arm; description is the arm's message.
ElementsTryFrom(T, v, description) ==
    LET mapped == MapTryFrom(T, v)
        parts == Partition(mapped)
        results == parts[1]
        errors == parts[2]
    IN  IF \E i \in 1..Len(mapped) : mapped[i].kind = "Panic"
        THEN Panic
        ELSE IF Len(errors) > 0
             THEN decode_error(Msg(description))
             ELSE UnwrapAll(results)

\* The catch-all arm: Ok(vec![T::try_from(value)?])
SingletonTryFrom(T, val) ==
    LET r == TryFrom(T, val)
    IN  IF is_ok(r) THEN Ok(<<r.val>>) ELSE r

\* Variant: Null read as the empty sequence.
VecTryFromNullEmpty(T, val) ==
    CASE val.tag = "List" ->
           ElementsTryFrom(T, val.v, "Error decoding list elements")
      [] val.tag = "Array" ->
           ElementsTryFrom(T, val.v, "Error decoding array elements")
      [] val.tag = "Null" -> Ok(<<>>)
      [] OTHER -> SingletonTryFrom(T, val)

VecTryFrom(T, val) ==
    CASE val.tag = "List" ->
           ElementsTryFrom(T, val.v, "Error decoding list elements")
      [] val.tag = "Array" ->
           ElementsTryFrom(T, val.v, "Error decoding array elements")
      [] OTHER -> SingletonTryFrom(T, val)

(***************************************************************************)
(* Scalar targets                                                          *)
(***************************************************************************)
U8TryFrom(val) ==
    IF val.tag = "Ubyte"
    THEN Ok(val.v)
    ELSE amqp_error(DECODE_ERROR, Msg("Error converting value to u8"))

U64TryFrom(val) ==
    IF val.tag = "Ulong"
    THEN Ok(val.v)
    ELSE decode_error(Msg("Error converting value to u64"))

U32TryFrom(val) ==
    IF val.tag = "Uint"
    THEN Ok(val.v)
    ELSE amqp_error(DECODE_ERROR, Msg("Error converting value to u32"))

\* Variant: an unsigned byte widened to u16.
U16TryFromWidening(val) ==
    IF val.tag \in {"Ushort", "Ubyte"}
    THEN Ok(val.v)
    ELSE amqp_error(DECODE_ERROR, Msg("Error converting value to u32"))

U16TryFrom(val) ==
    IF val.tag = "Ushort"
    THEN Ok(val.v)
    ELSE amqp_error(DECODE_ERROR, Msg("Error converting value to u32"))

BoolTryFrom(val) ==
    IF val.tag = "Bool"
    THEN Ok(val.v)
    ELSE decode_error(Msg("Error converting value to bool"))

(***************************************************************************)
(* Text targets                                                            *)
(***************************************************************************)
\* String::from_utf8_lossy over bytes 0x00..0xDF and 0xF5..0xFF: an ASCII
\* byte is its own character, a lead byte 0xC2..0xDF followed by a
\* continuation byte 0x80..0xBF is one two-byte character, and every other
\* byte is replaced by U+FFFD.  (Three- and four-byte leads 0xE0..0xF4 are
\* outside the byte domain of the instance.)
RECURSIVE from_utf8_lossy(_)
from_utf8_lossy(b) ==
    IF b = <<>>
    THEN <<>>
    ELSE IF b[1] < 128
         THEN <<b[1]>> \o from_utf8_lossy(Tail(b))
         ELSE IF /\ b[1] >= 194 /\ b[1] <= 223
                 /\ Len(b) >= 2 /\ b[2] >= 128 /\ b[2] <= 191
              THEN <<(b[1] % 32) * 64 + (b[2] % 64)>>
                       \o from_utf8_lossy(Tail(Tail(b)))
              ELSE <<65533>> \o from_utf8_lossy(Tail(b))

StringTryFrom(val) ==
    CASE val.tag = "Symbol" -> Ok(from_utf8_lossy(val.v))
      [] val.tag = "String" -> Ok(val.v)
      [] OTHER ->
           amqp_error(DECODE_ERROR, Msg("Error converting value to String"))

\* Variant: the Symbol conversion accepting text, as String accepts symbols.
SymbolTryFromText(val) ==
    IF val.tag \in {"Symbol", "String"}
    THEN Ok(val.v)
    ELSE amqp_error(DECODE_ERROR, Msg("Error converting value to Symbol"))

\* Symbol::from_vec(v) wraps the byte vector as it is.
SymbolTryFrom(val) ==
    IF val.tag = "Symbol"
    THEN Ok(val.v)
    ELSE amqp_error(DECODE_ERROR, Msg("Error converting value to Symbol"))

(***************************************************************************)
(* Map targets                                                             *)
(***************************************************************************)
\* Variant: entry(k).or_insert(x), the first value of a key kept.
InsertKeepFirst(m, k, x) ==
    [y \in DOMAIN m \cup {k} |-> IF y \in DOMAIN m THEN m[y] ELSE x]

\* BTreeMap::insert on a map held as a function from its keys.
Insert(m, k, x) == [y \in DOMAIN m \cup {k} |-> IF y = k THEN x ELSE m[y]]

\* The for loop over v.into_iter(), from entry i on, with m built so far:
\* String::try_from(key)? leaves the loop with the key's error.
RECURSIVE InsertEntries(_, _, _)
InsertEntries(m, v, i) ==
    IF i > Len(v)
    THEN Ok(m)
    ELSE LET k == StringTryFrom(v[i][1])
         IN  IF is_ok(k)
             THEN InsertEntries(Insert(m, k.val, v[i][2]), v, i + 1)
             ELSE k

MapStringValueTryFrom(val) ==
    IF val.tag = "Map"
    THEN InsertEntries(<<>>, val.v, 1)
    ELSE amqp_error(DECODE_ERROR, Msg("Error converting value to Vec<Symbol>"))

MapValueValueTryFrom(val) ==
    IF val.tag = "Map"
    THEN Ok(val.v)
    ELSE amqp_error(DECODE_ERROR, Msg("Error converting value to Vec<Symbol>"))

(***************************************************************************)
(* ErrorCondition                                                          *)
(***************************************************************************)
\* The descriptor of the amqp:error:list composite.
DESC_ERROR == Ulong(29)

\* FrameDecoder::new(&descriptor, &mut list): a decoder over the fields of a
\* list payload; a payload that is no list has no fields to decode.
FrameDecoderNew(descriptor, payload) ==
    IF payload.tag = "List"
    THEN Ok([desc |-> descriptor, args |-> payload.v])
    ELSE decode_error(Msg("Error decoding frame arguments"))

\* The field at position i: absent when the payload is shorter or holds Null.
Field(args, i) ==
    IF i <= Len(args) /\ args[i].tag # "Null" THEN Some(args[i]) ELSE None

\* ErrorCondition::decode(decoder): condition (mandatory), description and
\* info (optional), taken positionally.
ErrorConditionDecode(decoder) ==
    LET f1 == Field(decoder.args, 1)
        f2 == Field(decoder.args, 2)
        f3 == Field(decoder.args, 3)
        c == IF f1.some THEN StringTryFrom(f1.v)
             ELSE decode_error(Msg("Missing required field: condition"))
        d == IF f2.some THEN StringTryFrom(f2.v) ELSE Ok(<<>>)
        n == IF f3.some THEN MapStringValueTryFrom(f3.v) ELSE Ok(<<>>)
    IN  IF ~is_ok(c) THEN c
        ELSE IF ~is_ok(d) THEN d
        ELSE IF ~is_ok(n) THEN n
        ELSE Ok([condition |-> c.val, description |-> d.val, info |-> n.val])

\* Variant: the fields decoded whatever the descriptor is.
ErrorConditionTryFromUngated(val) ==
    IF val.tag = "Described"
    THEN LET decoder == FrameDecoderNew(val.d, val.v)
         IN  IF ~is_ok(decoder)
             THEN decoder
             ELSE ErrorConditionDecode(decoder.val)
    ELSE decode_error(Msg("Missing expected error descriptor"))

ErrorConditionTryFrom(val) ==
    IF val.tag = "Described"
    THEN LET decoder == FrameDecoderNew(val.d, val.v)
         IN  IF ~is_ok(decoder)
             THEN decoder
             ELSE IF val.d = DESC_ERROR
                  THEN ErrorConditionDecode(decoder.val)
                  ELSE decode_error(
                         Fmt("Expected error descriptor but found ", val.d))
    ELSE decode_error(Msg("Missing expected error descriptor"))

(***************************************************************************)
(* T::try_from(value), resolved on the target type ty.                     *)
(***************************************************************************)
TryFrom(ty, val) ==
    CASE ty[1] = "Option" -> OptionTryFrom(Tail(ty), val)
      [] ty[1] = "Vec" -> VecTryFrom(Tail(ty), val)
      [] ty[1] = "u8" -> U8TryFrom(val)
      [] ty[1] = "u64" -> U64TryFrom(val)
      [] ty[1] = "u32" -> U32TryFrom(val)
      [] ty[1] = "u16" -> U16TryFrom(val)
      [] ty[1] = "bool" -> BoolTryFrom(val)
      [] ty[1] = "String" -> StringTryFrom(val)
      [] ty[1] = "BTreeMap<String, Value>" -> MapStringValueTryFrom(val)
      [] ty[1] = "BTreeMap<Value, Value>" -> MapValueValueTryFrom(val)
      [] ty[1] = "Symbol" -> SymbolTryFrom(val)
      [] ty[1] = "ErrorCondition" -> ErrorConditionTryFrom(val)

(***************************************************************************)
(* The values of the instance: what the byte-level decoder can hand over.  *)
(***************************************************************************)
SeqsUpTo(S, n) == UNION {[1..k -> S] : k \in 0..n}

Bytes == {97, 195, 169}
Strings == {<<>>, <<97>>, <<233>>, <<65533>>}

Scalars ==
    {Null} \cup {Bool(b) : b \in BOOLEAN}
           \cup {Ubyte(n) : n \in 0..MaxVal} \cup {Ushort(n) : n \in 0..MaxVal}
           \cup {Uint(n) : n \in 0..MaxVal}
           \cup {Ulong(n) : n \in (0..MaxVal) \cup {29}}

Atoms ==
    Scalars \cup {String(s) : s \in Strings}
            \cup {Symbol(b) : b \in SeqsUpTo(Bytes, MaxSymLen)}

\* The elements of lists and arrays: scalars of every width, both kinds of
\* text, and nested sequences.
Elems ==
    {Null, Bool(TRUE), Ubyte(0), Ubyte(MaxVal), Ushort(0), Ulong(29),
     String(<<97>>), Symbol(<<97>>),
     List(<<Ubyte(0)>>), List(<<Ubyte(0), Bool(TRUE)>>)}

Lists == {List(s) : s \in SeqsUpTo(Elems, MaxLen)}

\* The elements of an array share one wire type.
Arrays ==
    {Array(s) : s \in {t \in SeqsUpTo(Elems, MaxLen) :
                          \A i, j \in 1..Len(t) : t[i].tag = t[j].tag}}

\* The entries of a BTreeMap<Value, Value>: no key occurs twice.
MapKeys ==
    {String(<<97>>), Symbol(<<97>>), Symbol(<<195>>), String(<<65533>>),
     Ubyte(0)}
MapVals == {Ubyte(0), Ubyte(MaxVal)}
Maps ==
    {Map(m) : m \in {e \in SeqsUpTo(MapKeys \X MapVals, MaxMapLen) :
                        \A i, j \in 1..Len(e) : e[i][1] = e[j][1] => i = j}}

\* Described values: the error descriptor and two others, over payloads
\* that are field lists and payloads that are not.
Descriptors == {DESC_ERROR, Ulong(0), Symbol(<<97>>)}
Args ==
    {Null, Symbol(<<97>>), String(<<97>>), Ubyte(0),
     Map(<<<<Symbol(<<97>>), Ubyte(0)>>>>)}
Payloads ==
    {Null, Ubyte(0), String(<<97>>)}
        \cup {List(s) : s \in SeqsUpTo(Args, MaxArgs)}
Describeds == {Described(d, p) : d \in Descriptors, p \in Payloads}

Values == Atoms \cup Lists \cup Arrays \cup Maps \cup Describeds

(***************************************************************************)
(* The target types of the instance: every base type bare and under one    *)
(* Option or Vec, and deeper compositions over NestedBase.                 *)
(***************************************************************************)
Scalar == {"u8", "u16", "u32", "u64", "bool"}
Base ==
    Scalar \cup {"String", "Symbol", "BTreeMap<String, Value>",
                 "BTreeMap<Value, Value>", "ErrorCondition"}
NestedBase == {"u8", "String"}
Wrap == {"Option", "Vec"}

RECURSIVE Nested(_)
Nested(n) ==
    IF n = 0
    THEN {<<b>> : b \in NestedBase}
    ELSE Nested(n - 1) \cup {<<w>> \o t : w \in Wrap, t \in Nested(n - 1)}

\* The types T of Option<T> and Vec<T>.
Inner == {<<b>> : b \in Base} \cup Nested(MaxTypeDepth - 1)

NoResult == [kind |-> "None"]

Init ==
    /\ value \in Values
    /\ target = <<>>
    /\ result = NoResult
    /\ pc = "ready"

\* One call of ty's try_from on the value.
Call(ty, r) ==
    /\ pc = "ready"
    /\ target' = ty
    /\ result' = r
    /\ pc' = "done"
    /\ UNCHANGED value

TryFromOption == \E T \in Inner : Call(<<"Option">> \o T, OptionTryFrom(T, value))
TryFromVec == \E T \in Inner : Call(<<"Vec">> \o T, VecTryFrom(T, value))
TryFromU8 == Call(<<"u8">>, U8TryFrom(value))
TryFromU64 == Call(<<"u64">>, U64TryFrom(value))
TryFromU32 == Call(<<"u32">>, U32TryFrom(value))
TryFromU16 == Call(<<"u16">>, U16TryFrom(value))
TryFromBool == Call(<<"bool">>, BoolTryFrom(value))
TryFromString == Call(<<"String">>, StringTryFrom(value))
TryFromMapStringValue ==
    Call(<<"BTreeMap<String, Value>">>, MapStringValueTryFrom(value))
TryFromMapValueValue ==
    Call(<<"BTreeMap<Value, Value>">>, MapValueValueTryFrom(value))
TryFromSymbol == Call(<<"Symbol">>, SymbolTryFrom(value))
TryFromErrorCondition == Call(<<"ErrorCondition">>, ErrorConditionTryFrom(value))

Next ==
    \/ TryFromOption
    \/ TryFromVec
    \/ TryFromU8
    \/ TryFromU64
    \/ TryFromU32
    \/ TryFromU16
    \/ TryFromBool
    \/ TryFromString
    \/ TryFromMapStringValue
    \/ TryFromMapValueValue
    \/ TryFromSymbol
    \/ TryFromErrorCondition

Spec == Init /\ [][Next]_vars

\* Every call returns a result of one of the three kinds.
TypeOK ==
    /\ pc \in {"ready", "done"}
    /\ pc = "done" => result.kind \in {"Ok", "Err", "Panic"}

(***************************************************************************)
(* Properties                                                              *)
(***************************************************************************)
Done(ty) == pc = "done" /\ target = ty

\* The wire variant a scalar target accepts.
ScalarVariant(t) ==
    CASE t = "u8" -> "Ubyte"
      [] t = "u16" -> "Ushort"
      [] t = "u32" -> "Uint"
      [] t = "u64" -> "Ulong"
      [] t = "bool" -> "Bool"

\* C1: a conversion to u8, u16, u32, u64 or bool succeeds exactly on the
\* matching variant (Ubyte, Ushort, Uint, Ulong, Bool), then returning the
\* payload unchanged; every other variant, an unsigned integer of another
\* width included, is an error.
C1_ScalarExactVariant ==
    \A t \in Scalar :
        Done(<<t>>) =>
            IF value.tag = ScalarVariant(t)
            THEN result = Ok(value.v)
            ELSE is_err(result)

\* An unsigned byte is refused by the u16 conversion.
C1_Witness == Done(<<"u16">>) /\ value = Ubyte(1) /\ is_err(result)

\* C2: Option<T> turns Null into Ok(None) whatever T is; on a non-Null value
\* it is Ok(Some(x)) exactly when T's conversion is Ok(x) and is T's error,
\* unchanged, when T's conversion fails; Ok(None) never comes from a
\* non-Null value.
C2_OptionComposition ==
    (pc = "done" /\ target[1] = "Option") =>
        LET inner == TryFrom(Tail(target), value)
        IN  IF value.tag = "Null"
            THEN result = Ok(None)
            ELSE /\ is_ok(result) <=> is_ok(inner)
                 /\ is_ok(inner) => result = Ok(Some(inner.val))
                 /\ is_err(inner) => result = inner
                 /\ result # Ok(None)

\* A boolean asked for as Option<u8> returns u8's own error.
C2_Witness ==
    /\ Done(<<"Option", "u8">>)
    /\ value = Bool(TRUE)
    /\ result = U8TryFrom(value)
    /\ is_err(result)

\* C3: Vec<T> of a List or Array whose elements all convert is Ok of the
\* converted elements, as many as the input holds and in its order; if some
\* element does not convert the result is one decode error and carries no
\* sequence.
C3_SequenceAllOrNothing ==
    (pc = "done" /\ target[1] = "Vec" /\ value.tag \in {"List", "Array"}) =>
        LET T == Tail(target)
            n == Len(value.v)
        IN  IF \A i \in 1..n : is_ok(TryFrom(T, value.v[i]))
            THEN result = Ok([i \in 1..n |-> TryFrom(T, value.v[i]).val])
            ELSE /\ is_err(result)
                 /\ result.condition = DECODE_ERROR
                 /\ "val" \notin DOMAIN result

\* A list of a byte and a boolean asked for as Vec<u8> is an error.
C3_Witness ==
    /\ Done(<<"Vec", "u8">>)
    /\ value = List(<<Ubyte(0), Bool(TRUE)>>)
    /\ is_err(result)

\* C4: Vec<T> of a value that is neither List nor Array is Ok of the one
\* element x when T's conversion is Ok(x) and T's error when it fails; Null
\* never becomes the empty sequence: Vec<u8> of Null is an error and
\* Vec<Option<u8>> of Null is Ok of the one element None.
C4_SingletonPromotion ==
    (pc = "done" /\ target[1] = "Vec" /\ value.tag \notin {"List", "Array"}) =>
        LET inner == TryFrom(Tail(target), value)
        IN  /\ is_ok(inner) => result = Ok(<<inner.val>>)
            /\ ~is_ok(inner) => result = inner
            /\ value = Null => result # Ok(<<>>)
            /\ (value = Null /\ target = <<"Vec", "u8">>) => is_err(result)
            /\ (value = Null /\ target = <<"Vec", "Option", "u8">>)
                   => result = Ok(<<None>>)

\* Null asked for as Vec<Option<u8>> is the one-element sequence of None.
C4_Witness ==
    /\ Done(<<"Vec", "Option", "u8">>)
    /\ value = Null
    /\ result = Ok(<<None>>)

\* A key converts to text when it is a String or a Symbol.
TextKey(k) == k.tag \in {"String", "Symbol"}

\* C5: the conversion to BTreeMap<String, Value> succeeds exactly on a Map
\* whose keys all convert to text; the result's keys are the texts of the
\* input's keys and each holds the unconverted value of the last entry, in
\* the input's iteration order, whose key converts to that text; a key that
\* does not convert fails the whole conversion.
C5_MapKeyPolicy ==
    Done(<<"BTreeMap<String, Value>">>) =>
        IF value.tag = "Map" /\ \A i \in 1..Len(value.v) : TextKey(value.v[i][1])
        THEN LET e == value.v
                 text(i) == StringTryFrom(e[i][1]).val
                 last(t) == CHOOSE i \in 1..Len(e) :
                                /\ text(i) = t
                                /\ \A j \in (i + 1)..Len(e) : text(j) # t
             IN  /\ is_ok(result)
                 /\ DOMAIN result.val = {text(i) : i \in 1..Len(e)}
                 /\ \A t \in DOMAIN result.val : result.val[t] = e[last(t)][2]
        ELSE is_err(result) /\ "val" \notin DOMAIN result

\* A Symbol key and a String key of the same text, holding different values,
\* collapse to one entry that holds the later one's value.
C5_Witness ==
    /\ Done(<<"BTreeMap<String, Value>">>)
    /\ value.tag = "Map"
    /\ Len(value.v) = 2
    /\ value.v[1][1].tag # value.v[2][1].tag
    /\ value.v[1][2] # value.v[2][2]
    /\ is_ok(result)
    /\ Cardinality(DOMAIN result.val) = 1
    /\ \A t \in DOMAIN result.val : result.val[t] = value.v[2][2]

\* C6: the String conversion succeeds exactly on the String variant, giving
\* its text unchanged, and on the Symbol variant, giving its bytes read as
\* text; the Symbol conversion succeeds exactly on the Symbol variant and
\* refuses the String variant.
C6_TextSymbolAsymmetry ==
    /\ Done(<<"String">>) =>
           CASE value.tag = "String" -> result = Ok(value.v)
             [] value.tag = "Symbol" ->
                  /\ is_ok(result)
                  /\ (\A i \in 1..Len(value.v) : value.v[i] < 128)
                         => result.val = value.v
                  /\ value.v = <<195, 169>> => result.val = <<233>>
             [] OTHER -> is_err(result)
    /\ Done(<<"Symbol">>) =>
           IF value.tag = "Symbol"
           THEN result = Ok(value.v)
           ELSE is_err(result)

\* A String is refused by the Symbol conversion.
C6_Witness == Done(<<"Symbol">>) /\ value = String(<<97>>) /\ is_err(result)

\* C7: the ErrorCondition conversion is Ok only for a Described value whose
\* descriptor is DESC_ERROR; every other value is an error.
C7_DescriptorGating ==
    Done(<<"ErrorCondition">>) =>
        /\ is_ok(result) => (value.tag = "Described" /\ value.d = DESC_ERROR)
        /\ (value.tag # "Described" \/ value.d # DESC_ERROR) => is_err(result)

\* A well-formed field list under another descriptor is refused.
C7_Witness ==
    /\ Done(<<"ErrorCondition">>)
    /\ value = Described(Ulong(0), List(<<Symbol(<<97>>)>>))
    /\ is_err(result)

\* C8: every conversion returns Ok or Err and never aborts, whatever the
\* value and the target, nested compositions included: Result::unwrap in
\* Vec<T> only meets Ok results.
C8_Total == pc = "done" => result.kind \in {"Ok", "Err"}

\* A list of lists asked for as Vec<Vec<u8>> passes through both unwraps.
C8_Witness ==
    /\ Done(<<"Vec", "Vec", "u8">>)
    /\ value = List(<<List(<<Ubyte(0)>>), List(<<Ubyte(0)>>)>>)
    /\ result = Ok(<<<<0>>, <<0>>>>)

\* C9: for a Described value under a descriptor other than DESC_ERROR the
\* error is the descriptor mismatch citing that descriptor, whatever the
\* payload, and never an error of the field decoder.
C9_DescriptorCheckedFirst ==
    (Done(<<"ErrorCondition">>) /\ value.tag = "Described"
                                /\ value.d # DESC_ERROR) =>
        result = decode_error(Fmt("Expected error descriptor but found ", value.d))

\* The message that names a scalar target.
NamesTarget(t) ==
    CASE t = "u8" -> Msg("Error converting value to u8")
      [] t = "u16" -> Msg("Error converting value to u16")
      [] t = "u32" -> Msg("Error converting value to u32")
      [] t = "u64" -> Msg("Error converting value to u64")
      [] t = "bool" -> Msg("Error converting value to bool")

\* C10: a variant mismatch of a scalar target is a decode error whose
\* message names that target.
C10_ErrorNamesTarget ==
    \A t \in Scalar :
        (Done(<<t>>) /\ is_err(result)) =>
            /\ result.condition = DECODE_ERROR
            /\ result.description = NamesTarget(t)

====
